---- MODULE Spec2Model ----
(***************************************************************************)
(* nhpp.get_arrivals: arrivals of a non-homogeneous Poisson process whose  *)
(* rate is the piecewise-linear function through the knots, by inversion   *)
(* of the integrated rate and, with a rate function, thinning.             *)
(*                                                                         *)
(* Real numbers are fixed-point: the integer x stands for x / SCALE.       *)
(* Products and quotients round down, the square root is the integer       *)
(* square root.  Knot times and rates are whole numbers, draws are whole   *)
(* multiples of 1/2, so that every value before the square root is exact.  *)
(* A first call runs without a rate function; a second call on the same    *)
(* knots replays its exponential draws with a rate function supplied.      *)
(***************************************************************************)
EXTENDS Integers, Sequences, FiniteSets

VARIABLES literal, knots, func, call, pc, err, knot_times, knot_vals, s, L,
          a, u, j, u_next, a_next, ind_unif, fval, env, prob_ratio, ret,
          tape, drawn, plain, below

vars == <<literal, knots, func, call, pc, err, knot_times, knot_vals, s, L,
          a, u, j, u_next, a_next, ind_unif, fval, env, prob_ratio, ret,
          tape, drawn, plain, below>>

\* ---------------------------------------------------------------- bounds
MaxRate == 2
MaxTotalHalves == 4
MaxDraw == 3
MaxFunc == 2
UnifDen == 2

\* ----------------------------------------------------------- fixed point
SCALE == 8 * 9 * 5 * 7
HALF == SCALE \div 2
NaN == 0 - (SCALE * SCALE)

Fix(n) == n * SCALE
FMul(x, y) == (x * y) \div SCALE
FDiv(x, y) == (x * SCALE) \div y

RECURSIVE SqrtSearch(_, _, _)
SqrtSearch(n, lo, hi) ==
    IF lo >= hi THEN lo
    ELSE LET mid == (lo + hi + 1) \div 2
         IN  IF mid * mid <= n THEN SqrtSearch(n, mid, hi)
             ELSE SqrtSearch(n, lo, mid - 1)

\* np.sqrt: the root rounded down; nan for a negative argument.
FSqrt(x) == IF x < 0 THEN NaN ELSE SqrtSearch(x * SCALE, 0, 46340)

\* ------------------------------------------------------------- the dict
RECURSIVE DictOf(_)
\* A dict display: a later entry for a key replaces the earlier one.
DictOf(items) ==
    IF items = <<>> THEN <<>>
    ELSE LET n == Len(items)
             d == DictOf(SubSeq(items, 1, n - 1))
             k == items[n][1]
         IN  [x \in (DOMAIN d) \cup {k} |-> IF x = k THEN items[n][2] ELSE d[x]]

MinOf(S) == CHOOSE x \in S : \A y \in S : x <= y

RECURSIVE SortedSeq(_)
SortedSeq(S) ==
    IF S = {} THEN <<>> ELSE <<MinOf(S)>> \o SortedSeq(S \ {MinOf(S)})

\* _get_sorted_pairs: the keys ascending, and their values in that order.
_get_sorted_pairs(dic) ==
    LET keys == SortedSeq(DOMAIN dic)
    IN  [keys |-> keys, vals |-> [i \in 1 .. Len(keys) |-> dic[keys[i]]]]

\* Mutant: only the first rate is tested.
CheckFirstRateOnly(vals) == vals[1] < 0

\* _check_arrivals_positive: TRUE when it raises.
_check_arrivals_positive(vals) == \E i \in 1 .. Len(vals) : vals[i] < 0

SeqRange(q) == {q[i] : i \in 1 .. Len(q)}

\* Mutant: the comparison of the two lengths is the wrong way round.
RateSlopesTestWrong(times) == Len(times) < Cardinality(SeqRange(times))

\* The test of _get_rate_slopes: TRUE when it raises.
_get_rate_slopes_raises(times) == Len(times) # Cardinality(SeqRange(times))

\* _get_rate_slopes, past its test.
_get_rate_slopes(vals, times) ==
    [i \in 1 .. (Len(times) - 1) |->
        FDiv(Fix(vals[i + 1]) - Fix(vals[i]), Fix(times[i + 1]) - Fix(times[i]))]

RECURSIVE _get_integrated_rate_values(_, _)
_get_integrated_rate_values(vals, times) ==
    LET n == Len(times)
    IN  IF n <= 1 THEN <<0>>
        ELSE LET Lp == _get_integrated_rate_values(SubSeq(vals, 1, n - 1),
                                               SubSeq(times, 1, n - 1))
             IN  Append(Lp, Lp[n - 1]
                            + FMul(FMul(HALF, Fix(vals[n]) + Fix(vals[n - 1])),
                                   Fix(times[n]) - Fix(times[n - 1])))

\* ---------------------------------------------------------------- inputs
KnotTimes == {0 - 1, 0, 1, 2}
KnotRates == (0 - 1) .. MaxRate

\* The integrated rate over the whole domain, L[-1].
TotalRate(dic) ==
    LET p == _get_sorted_pairs(dic)
        Lq == _get_integrated_rate_values(p.vals, p.keys)
    IN  Lq[Len(Lq)]

\* The knots: dicts of two to four entries whose total integrated rate is at
\* most MaxTotalHalves / 2, and every dict of those sizes that holds a negative rate.
KnotDicts ==
    {d \in UNION {[T -> KnotRates] :
                    T \in {X \in SUBSET KnotTimes : Cardinality(X) >= 2}} :
        (\E t \in DOMAIN d : d[t] < 0) \/ TotalRate(d) <= MaxTotalHalves * HALF}
ExpVals == {k * HALF : k \in 1 .. MaxDraw}
UnifVals == {(k * SCALE) \div UnifDen : k \in 0 .. (UnifDen - 1)}
FuncVals == {k * HALF : k \in (0 - 1) .. MaxFunc}
IterCap == MaxTotalHalves + 2

\* ------------------------------------------------------- piecewise value
RECURSIVE PiecewiseScan(_, _, _)
\* while knot_times[j+1] < t: j += 1   (jj counts from 0; -1: index out of range)
PiecewiseScan(times, t, jj) ==
    IF jj + 2 > Len(times) THEN 0 - 1
    ELSE IF Fix(times[jj + 2]) < t THEN PiecewiseScan(times, t, jj + 1)
    ELSE jj

\* _get_piecewise_val(knots, t): [err, val].
_get_piecewise_val(dic, t) ==
    LET p == _get_sorted_pairs(dic)
        times == p.keys
        vals == p.vals
    IN  IF t # NaN /\ (t < Fix(times[1]) \/ t > Fix(times[Len(times)]))
        THEN [err |-> "ValueError: cannot determine piecewise value", val |-> 0]
        ELSE IF t = NaN THEN [err |-> "", val |-> NaN]
        ELSE LET sl == _get_rate_slopes(vals, times)
                 jj == PiecewiseScan(times, t, 0)
             IN  IF jj < 0 \/ jj + 1 > Len(sl)
                 THEN [err |-> "IndexError", val |-> 0]
                 ELSE [err |-> "",
                       val |-> Fix(vals[jj + 1])
                               + FMul(sl[jj + 1], t - Fix(times[jj + 1]))]

\* ------------------------------------------------------------- inversion
RECURSIVE AdvanceCursorLe(_, _, _, _)
\* Mutant: the cursor also leaves a segment whose end u_next equals.
AdvanceCursorLe(Lq, n, un, jj) ==
    IF jj + 2 > Len(Lq) THEN 0 - 1
    ELSE IF Lq[jj + 2] <= un /\ jj < n THEN AdvanceCursorLe(Lq, n, un, jj + 1)
    ELSE jj

RECURSIVE AdvanceCursor(_, _, _, _)
\* while L[j+1] < u_next and j < len(knot_times): j += 1
\* L[j+1] is read first: -1 when that index is out of range.
AdvanceCursor(Lq, n, un, jj) ==
    IF jj + 2 > Len(Lq) THEN 0 - 1
    ELSE IF Lq[jj + 2] < un /\ jj < n THEN AdvanceCursor(Lq, n, un, jj + 1)
    ELSE jj

\* Mutant: the inverse is taken from the first knot's time, not the segment's.
InvFromFirstKnot(times, vals, sl, Lq, uu, jj) ==
    IF jj + 1 > Len(sl) THEN [err |-> "IndexError", val |-> 0]
    ELSE LET d == uu - Lq[jj + 1]
             v == Fix(vals[jj + 1])
         IN  IF sl[jj + 1] # 0
             THEN LET root == FSqrt(FMul(v, v) + FMul(2 * sl[jj + 1], d))
                  IN  IF root = NaN \/ v + root = 0
                      THEN [err |-> "", val |-> NaN]
                      ELSE [err |-> "",
                            val |-> Fix(times[1]) + FDiv(2 * d, v + root)]
             ELSE IF v = 0
                  THEN [err |-> "ZeroDivisionError: inverse", val |-> 0]
                  ELSE [err |-> "", val |-> Fix(times[1]) + FDiv(d, v)]

\* _inv_int_rate_func(u, j) over the captured knot_times, knot_vals, s, L: [err, val].
_inv_int_rate_func(times, vals, sl, Lq, uu, jj) ==
    IF jj + 1 > Len(sl) THEN [err |-> "IndexError", val |-> 0]
    ELSE LET d == uu - Lq[jj + 1]
             v == Fix(vals[jj + 1])
         IN  IF sl[jj + 1] # 0
             THEN LET root == FSqrt(FMul(v, v) + FMul(2 * sl[jj + 1], d))
                  IN  IF root = NaN \/ v + root = 0
                      THEN [err |-> "", val |-> NaN]
                      ELSE [err |-> "",
                            val |-> Fix(times[jj + 1]) + FDiv(2 * d, v + root)]
             ELSE IF v = 0
                  THEN [err |-> "ZeroDivisionError: inverse", val |-> 0]
                  ELSE [err |-> "", val |-> Fix(times[jj + 1]) + FDiv(d, v)]

\* Mutant: the loop has no break.
LoopExitNever(un, Lq) == FALSE

\* if u_next >= L[-1]: break   (line 180)
LoopExit(un, Lq) == un >= Lq[Len(Lq)]

\* Mutant: the whole list is returned, sentinel included.
ReturnedWithSentinel(al) == al

\* return a[1:]   (line 203)
Returned(al) == SubSeq(al, 2, Len(al))

\* Mutant: the homogeneous clock is not advanced.
PlainClockStuck(uq, un) == uq

\* u.append(u_next) of the branch without a rate function   (line 202)
PlainClock(uq, un) == Append(uq, un)

\* One pass of the loop body up to the candidate (lines 180-184), for the
\* draw e: [brk, err, j, u_next, a_next].
Candidate(e) ==
    LET un == u[Len(u)] + e
    IN  IF LoopExit(un, L)
        THEN [brk |-> TRUE, err |-> "", j |-> j, u_next |-> un, a_next |-> 0]
        ELSE LET jn == AdvanceCursor(L, Len(knot_times), un, j)
             IN  IF jn < 0
                 THEN [brk |-> FALSE, err |-> "IndexError", j |-> j,
                       u_next |-> un, a_next |-> 0]
                 ELSE LET r == _inv_int_rate_func(knot_times, knot_vals, s, L, un, jn)
                      IN  [brk |-> FALSE, err |-> r.err, j |-> jn,
                           u_next |-> un, a_next |-> r.val]

\* The exponential draws: the tape of the first call is replayed by the second.
Draws == IF drawn < Len(tape) THEN {tape[drawn + 1]} ELSE ExpVals
TapeWith(e) == IF drawn < Len(tape) THEN tape ELSE Append(tape, e)

\* ------------------------------------------------------------------ init
NoLocals ==
    /\ u_next = 0 /\ a_next = 0 /\ ind_unif = 0 /\ fval = 0 /\ env = 0
    /\ prob_ratio = 0

Blank ==
    /\ err = "" /\ knot_times = <<>> /\ knot_vals = <<>> /\ s = <<>> /\ L = <<>>
    /\ a = <<>> /\ u = <<>> /\ j = 0 /\ ret = <<>> /\ drawn = 0 /\ below = TRUE
    /\ NoLocals

Init ==
    /\ knots \in KnotDicts
    /\ literal = <<>>
    /\ func = FALSE /\ call = 1 /\ pc = "start"
    /\ tape = <<>> /\ plain = [pc |-> "", ret |-> <<>>]
    /\ Blank

\* A call whose knots are written as a dict display, entry by entry.
Literals ==
    {q \in UNION {[1 .. n -> KnotTimes \X (1 .. MaxRate)] : n \in 2 .. 3} :
        TotalRate(DictOf(q)) <= MaxTotalHalves * HALF}

InitLit ==
    /\ literal \in Literals
    /\ knots = <<>>
    /\ func = FALSE /\ call = 1 /\ pc = "display"
    /\ tape = <<>> /\ plain = [pc |-> "", ret |-> <<>>]
    /\ Blank

\* --------------------------------------------------------------- actions
\* The dict display is evaluated and passed to get_arrivals.
DictDisplay ==
    /\ pc = "display"
    /\ knots' = DictOf(literal)
    /\ pc' = "start"
    /\ UNCHANGED <<literal, func, call, err, knot_times, knot_vals, s, L, a, u,
                   j, u_next, a_next, ind_unif, fval, env, prob_ratio, ret,
                   tape, drawn, plain, below>>

\* get_arrivals up to the loop (lines 148-176).
Setup ==
    /\ pc = "start"
    /\ LET p == _get_sorted_pairs(knots)
       IN  /\ knot_times' = p.keys
           /\ knot_vals' = p.vals
           /\ IF _check_arrivals_positive(p.vals)
              THEN /\ pc' = "error" /\ err' = "ValueError"
                   /\ UNCHANGED <<s, L, a, u>>
              ELSE IF _get_rate_slopes_raises(p.keys)
              THEN /\ pc' = "error"
                   /\ err' = "ValueError: cannot infer piecewise function"
                   /\ UNCHANGED <<s, L, a, u>>
              ELSE /\ s' = _get_rate_slopes(p.vals, p.keys)
                   /\ L' = _get_integrated_rate_values(p.vals, p.keys)
                   /\ a' = <<0>> /\ u' = <<0>>
                   /\ pc' = "loop" /\ UNCHANGED err
    /\ j' = 0
    /\ UNCHANGED <<literal, knots, func, call, u_next, a_next, ind_unif, fval,
                   env, prob_ratio, ret, tape, drawn, plain, below>>

\* The iteration that leaves the loop (lines 179-181, 203).
LoopBreak ==
    /\ pc = "loop" /\ drawn < IterCap
    /\ \E e \in Draws : \E c \in {Candidate(e)} :
             /\ c.brk
             /\ u_next' = c.u_next
             /\ tape' = TapeWith(e)
    /\ drawn' = drawn + 1
    /\ pc' = "done"
    /\ ret' = Returned(a)
    /\ UNCHANGED <<literal, knots, func, call, err, knot_times, knot_vals, s, L,
                   a, u, j, a_next, ind_unif, fval, env, prob_ratio, plain, below>>

\* An iteration without a rate function (lines 179-184, 200-202).
LoopPlain ==
    /\ pc = "loop" /\ drawn < IterCap /\ ~func
    /\ \E e \in Draws : \E c \in {Candidate(e)} :
             /\ ~c.brk
             /\ u_next' = c.u_next
             /\ tape' = TapeWith(e)
             /\ IF c.err # ""
                THEN /\ pc' = "error" /\ err' = c.err
                     /\ UNCHANGED <<a, u, j, a_next>>
                ELSE /\ j' = c.j /\ a_next' = c.a_next
                     /\ a' = Append(a, c.a_next)
                     /\ u' = PlainClock(u, c.u_next)
                     /\ UNCHANGED <<pc, err>>
    /\ drawn' = drawn + 1
    /\ UNCHANGED <<literal, knots, func, call, knot_times, knot_vals, s, L,
                   ind_unif, fval, env, prob_ratio, ret, plain, below>>

PosInf == SCALE * SCALE
NegInf == NaN - 1

\* func(a_next) / _get_piecewise_val(knots, a_next) where the division does
\* not raise: numpy's inf and nan for a zero envelope.
Ratio(fv, ev) ==
    IF ev = NaN THEN NaN
    ELSE IF ev = 0 THEN (IF fv > 0 THEN PosInf ELSE IF fv < 0 THEN NegInf ELSE NaN)
    ELSE FDiv(fv, ev)

\* Mutant: the ratio is tested against 2.
NotDominatedLoose(ratio) == ratio > Fix(2)

\* if prob_ratio > 1: raise   (line 194)
NotDominated(ratio) == ratio > Fix(1)

\* if ind_unif < prob_ratio: a.append(a_next)   (line 196)
Accepts(unif, ratio) == unif < ratio

\* Mutant: the clock advances only when the candidate is accepted.
ThinClockOnAccept(uq, un, accepted) == IF accepted THEN Append(uq, un) ELSE uq

\* u.append(u_next), whether or not the candidate was accepted   (line 198)
ThinClock(uq, un, accepted) == Append(uq, un)

\* An iteration with a rate function (lines 179-198).  The value of func at
\* the candidate is any of FuncVals; a division by a zero envelope either
\* raises or gives numpy's inf/nan, as the operand types and numpy's error
\* state decide.
LoopThin ==
    /\ pc = "loop" /\ drawn < IterCap /\ func
    /\ \E e \in Draws : \E c \in {Candidate(e)} :
         /\ ~c.brk
         /\ u_next' = c.u_next
         /\ tape' = TapeWith(e)
         /\ IF c.err # ""
            THEN /\ pc' = "error" /\ err' = c.err
                 /\ UNCHANGED <<a, u, j, a_next, ind_unif, fval, env,
                                prob_ratio, below>>
            ELSE \E un \in UnifVals, fv \in FuncVals :
                 \E pv \in {_get_piecewise_val(knots, c.a_next)} :
                 \E raises \in (IF pv.val = 0 THEN BOOLEAN ELSE {FALSE}) :
                 \E ratio \in {Ratio(fv, pv.val)} :
                 /\ j' = c.j /\ a_next' = c.a_next
                 /\ ind_unif' = un /\ fval' = fv
                 /\ IF pv.err # ""
                    THEN /\ pc' = "error" /\ err' = pv.err
                         /\ UNCHANGED <<a, u, env, prob_ratio, below>>
                    ELSE /\ env' = pv.val
                         /\ below' = (below /\ fv < pv.val)
                         /\ IF pv.val = 0 /\ raises
                            THEN /\ pc' = "error" /\ err' = "ZeroDivisionError: ratio"
                                 /\ UNCHANGED <<a, u, prob_ratio>>
                            ELSE /\ prob_ratio' = ratio
                                 /\ IF NotDominated(ratio)
                                    THEN /\ pc' = "error"
                                         /\ err' = "ValueError: does not dominate"
                                         /\ UNCHANGED <<a, u>>
                                    ELSE /\ a' = IF Accepts(un, ratio)
                                                 THEN Append(a, c.a_next) ELSE a
                                         /\ u' = ThinClock(u, c.u_next,
                                                           Accepts(un, ratio))
                                         /\ UNCHANGED <<pc, err>>
    /\ drawn' = drawn + 1
    /\ UNCHANGED <<literal, knots, func, call, knot_times, knot_vals, s, L,
                   ret, plain>>

\* The same knots and the same exponential draws again, now with a rate function.
SecondCall ==
    /\ call = 1 /\ pc \in {"done", "error"}
    /\ call' = 2 /\ func' = TRUE /\ pc' = "start"
    /\ plain' = [pc |-> pc, ret |-> ret]
    /\ err' = "" /\ knot_times' = <<>> /\ knot_vals' = <<>> /\ s' = <<>>
    /\ L' = <<>> /\ a' = <<>> /\ u' = <<>> /\ j' = 0 /\ ret' = <<>>
    /\ drawn' = 0 /\ below' = TRUE
    /\ u_next' = 0 /\ a_next' = 0 /\ ind_unif' = 0 /\ fval' = 0 /\ env' = 0
    /\ prob_ratio' = 0
    /\ UNCHANGED <<literal, knots, tape>>

Next == Setup \/ LoopBreak \/ LoopPlain \/ LoopThin \/ SecondCall

Spec == Init /\ [][Next]_vars

NextLit == DictDisplay \/ Setup \/ LoopBreak \/ LoopPlain

SpecLit == InitLit /\ [][NextLit]_vars


\* ---------------------------------------------------------------- claims
Increasing(q) == \A i \in 1 .. (Len(q) - 1) : q[i] < q[i + 1]

\* C1: the list get_arrivals returns is strictly increasing, without a rate
\* function (first call) and with one (second call).
C1_StrictlyIncreasing ==
    /\ pc = "done" => Increasing(ret)
    /\ plain.pc = "done" => Increasing(plain.ret)

\* A thinned call that returned three arrivals lying in two segments.
C1_Witness ==
    /\ call = 2 /\ pc = "done" /\ Len(ret) >= 3 /\ j >= 1
    /\ ret[1] < Fix(knot_times[2])

DomainMin == Fix(knot_times[1])
DomainMax == Fix(knot_times[Len(knot_times)])

\* C2: every returned arrival lies in [min(knot times), max(knot times)]; the
\* sentinel 0 that heads the list a is not returned: the result is a without
\* its first entry.
C2_DomainContainment ==
    pc = "done" =>
        /\ \A i \in 1 .. Len(ret) : DomainMin <= ret[i] /\ ret[i] <= DomainMax
        /\ Len(ret) = Len(a) - 1
        /\ \A i \in 1 .. Len(ret) : ret[i] = a[i + 1]

\* A call over a domain that does not hold 0 returned arrivals.
C2_Witness == pc = "done" /\ Len(ret) >= 2 /\ DomainMin > 0

Remaining == L[Len(L)] - u[Len(u)]

\* C3: the sampling loop ends: a step taken in the loop returns, fails, or
\* stays in the loop with the distance to L[-1] positive and strictly smaller
\* than before, the exponential draws so far still below the iteration cap.
C3_Termination ==
    [][pc = "loop" =>
         /\ pc' \in {"loop", "done", "error"}
         /\ drawn' = drawn + 1
         /\ pc' = "loop" =>
              /\ Remaining' < Remaining
              /\ Remaining' > 0
              /\ drawn' < IterCap]_vars

\* A call left the loop at its break after four iterations.
C3_Witness == pc = "done" /\ drawn >= 4 /\ Len(u) >= 4

\* C4: a ratio func(a_next) / envelope(a_next) above 1 ends the call with the
\* domination error, whatever the uniform draw; nothing is returned.
C4_DominationFails ==
    (func /\ drawn > 0 /\ prob_ratio > Fix(1)) =>
        /\ pc = "error" /\ err = "ValueError: does not dominate"
        /\ ret = <<>>

\* The error was raised after an earlier candidate had been accepted, with a
\* uniform draw that is below the ratio.
C4_Witness ==
    /\ pc = "error" /\ err = "ValueError: does not dominate"
    /\ Len(a) >= 2 /\ ind_unif > 0 /\ prob_ratio < PosInf

RECURSIVE IsSubseq(_, _)
IsSubseq(x, y) ==
    IF x = <<>> THEN TRUE
    ELSE IF y = <<>> THEN FALSE
    ELSE IF Head(x) = Head(y) THEN IsSubseq(Tail(x), Tail(y))
    ELSE IsSubseq(x, Tail(y))

\* C5: with the same knots and exponential draws, a call whose rate function
\* is strictly below the envelope at every candidate returns a subsequence of
\* what the call without a rate function returns, so no more arrivals.
C5_ThinningSubsequence ==
    (call = 2 /\ pc = "done" /\ below /\ plain.pc = "done") =>
        /\ Len(ret) <= Len(plain.ret)
        /\ IsSubseq(ret, plain.ret)

\* A thinned call kept one candidate and dropped at least one other.
C5_Witness ==
    /\ call = 2 /\ pc = "done" /\ below /\ plain.pc = "done"
    /\ Len(ret) >= 1 /\ Len(ret) < Len(plain.ret)

HasNegativeRate == \E t \in DOMAIN knots : knots[t] < 0

\* C6: a negative knot rate ends the call with a value error before any draw
\* is taken, with nothing returned, in both calls.
C6_NegativeRate ==
    (HasNegativeRate /\ pc # "start") =>
        /\ pc = "error" /\ err = "ValueError"
        /\ drawn = 0 /\ tape = <<>> /\ ret = <<>> /\ a = <<>>

\* The call with a rate function failed on knots whose middle rate alone is
\* negative.
C6_Witness ==
    /\ call = 2 /\ pc = "error" /\ Len(knot_vals) = 3
    /\ knot_vals[1] >= 0 /\ knot_vals[2] < 0 /\ knot_vals[3] >= 0

LiteralTimes == [i \in 1 .. Len(literal) |-> literal[i][1]]
HasRepeat(q) == \E i, k \in 1 .. Len(q) : i # k /\ q[i] = q[k]
LastRate(t) ==
    LET i == CHOOSE i \in 1 .. Len(literal) :
                 /\ literal[i][1] = t
                 /\ \A k \in (i + 1) .. Len(literal) : literal[k][1] # t
    IN  literal[i][2]

\* C7 as claimed: knots written with a repeated time make the call fail with
\* the duplicate-time error.
C7_DuplicateTimeRaises ==
    (HasRepeat(LiteralTimes) /\ pc \notin {"display", "start"}) =>
        pc = "error" /\ err = "ValueError: cannot infer piecewise function"

\* C7 as amended: the dict keeps one entry for each time, with the rate
\* written last for it, so the duplicate-time test of _get_rate_slopes never
\* fires inside get_arrivals; the test itself fires exactly on a time list
\* that holds a repeat.
C7_DuplicateTimeCollapses ==
    /\ _get_rate_slopes_raises(LiteralTimes) <=> HasRepeat(LiteralTimes)
    /\ pc \notin {"display", "start"} =>
        /\ err # "ValueError: cannot infer piecewise function"
        /\ ~HasRepeat(knot_times)
        /\ \A i \in 1 .. Len(knot_times) : knot_vals[i] = LastRate(knot_times[i])

\* Knots written with a repeated time: the call returned an arrival.
C7_Witness == HasRepeat(LiteralTimes) /\ pc = "done" /\ Len(ret) >= 1

AllRatesZero == \A t \in DOMAIN knots : knots[t] = 0

\* C8: with every knot rate 0 the call returns the empty list at its first
\* iteration: no cursor advance, no inversion, no error.
C8_AllZeroEmpty ==
    (AllRatesZero /\ pc # "start") =>
        /\ pc \in {"loop", "done"} /\ err = ""
        /\ a = <<0>> /\ u = <<0>> /\ j = 0 /\ L[Len(L)] = 0
        /\ pc = "loop" => drawn = 0
        /\ pc = "done" => (drawn = 1 /\ ret = <<>>)

\* The call with a rate function returned on four knots of rate 0.
C8_Witness == AllRatesZero /\ call = 2 /\ pc = "done" /\ Len(knot_times) = 4

\* The last iteration reached the inversion step.
ReachedInversion ==
    /\ drawn > 0
    /\ \/ pc = "loop"
       \/ pc = "error" /\ err \notin {"IndexError", "ZeroDivisionError: inverse"}

\* C9: at the inversion step 0 <= j <= N-2 and L[j] < u_next <= L[j+1], the
\* segment is not a flat segment of rate 0, and neither an index error nor
\* the inverse's division by zero is ever raised.
C9_CursorInSegment ==
    /\ pc = "error" => err \notin {"IndexError", "ZeroDivisionError: inverse"}
    /\ ReachedInversion =>
        /\ 0 <= j /\ j <= Len(knot_times) - 2
        /\ L[j + 1] < u_next /\ u_next <= L[j + 2]
        /\ ~(s[j + 1] = 0 /\ knot_vals[j + 1] = 0)

\* The cursor went past a flat segment of rate 0 in the middle of the domain.
C9_Witness ==
    /\ pc = "loop" /\ drawn > 0 /\ j = 2 /\ Len(knot_times) = 4
    /\ knot_vals[2] = 0 /\ knot_vals[3] = 0 /\ knot_vals[1] > 0

\* The last iteration computed the envelope for the ratio.
ReachedRatio ==
    /\ func /\ drawn > 0
    /\ \/ pc = "loop"
       \/ pc = "error" /\ err \in {"ZeroDivisionError: ratio",
                                   "ValueError: does not dominate"}

\* C10: the envelope value the ratio is divided by is strictly positive.
C10_EnvelopePositive == ReachedRatio => env > 0

====
